---- MODULE Spec2Model ----
(***************************************************************************)
(* Paginated, periodically refreshed list hooks of the playground:         *)
(*   useTraces       (packages/playground/.../hooks/use-traces.tsx)        *)
(*   useWorkflowRuns (packages/playground-ui/src/hooks/use-workflow-runs)  *)
(* Each hook hands useInfiniteQuery a queryFn, getNextPageParam, select,   *)
(* retry: false and a refetchInterval, and runs an effect that asks for    *)
(* the next page when the end of the list is in view.                      *)
(***************************************************************************)
EXTENDS Integers, Sequences, FiniteSets, TLC

VARIABLES
    hook,               \* which of the two hooks this query session runs
    pages,              \* data.pages of the infinite query, in the order the results arrived
    data,               \* query.data: what select returned for the current pages
    inflight,           \* the fetches issued and not yet settled
    isEndOfListInView,  \* inView of useInView
    selected,           \* the identifier the user clicked (0: none)
    isError,            \* the last settled fetch failed
    clock,              \* ms since the refetch timer was started or last fired
    deleted             \* the run identifiers deleted at the backend

vars == <<hook, pages, data, inflight, isEndOfListInView, selected, isError, clock, deleted>>

Hooks == {"traces", "runs"}

----------------------------------------------------------------------------
\* Bounds of the model

\* copies of one page handed to select
MaxCopies == 3

\* accumulated pages plus fetches in flight, per query session
MaxPages == 3
\* identifiers 1..MaxId of the inputs of the projector specification
MaxId == 3
\* total number of records in one input of the projector specification
MaxRecords == 3
\* number of pages in one input of the projector specification
MaxSelPages == 3

\* page parameters 0..MaxParam of the inputs of the next-page specification
MaxParam == 5
\* records held by the accumulated pages of a query session: two full pages
\* of workflow runs and a partial one
MaxHeld == 45
\* workflow runs the backend of the deletion specification starts with
MaxRuns == 3

\* Program constants
PER_PAGE == 20

initialPageParam == 0

TRACES_REFETCH_INTERVAL == 3000

RUNS_REFETCH_INTERVAL == 5000

----------------------------------------------------------------------------
\* Records and pages

makeSpan(id, name) == [id |-> id, name |-> name]

makeRun(id, name) == [id |-> id, name |-> name]

\* what flatMap(page => page.runs) leaves in the list for a page without runs
undefined == [id |-> 0, name |-> "undefined"]

\* a fetched page: its record sequence (defined = FALSE: the field is absent)
\* and pagination.hasMore ("missing": no pagination object)
Page(items, more) == [defined |-> TRUE, items |-> items, more |-> more]

AbsentPage == [defined |-> FALSE, items |-> <<>>, more |-> "missing"]

\* an entry of data.pages with its entry of data.pageParams
Entry(param, page) ==
    [param |-> param, defined |-> page.defined, items |-> page.items, more |-> page.more]

TRACES ==
    << makeSpan(1, "Alpha"), makeSpan(2, "Bravo"), makeSpan(3, "Charlie"),
       makeSpan(4, "Delta"), makeSpan(5, "Echo") >>

PageABC == << makeSpan(1, "Alpha"), makeSpan(2, "Bravo"), makeSpan(3, "Charlie") >>

PageBCD == << makeSpan(2, "Bravo"), makeSpan(3, "Charlie"), makeSpan(4, "Delta") >>

PageStale == << makeSpan(1, "Stale") >>

FullPage == [i \in 1..PER_PAGE |-> makeRun(i, "Run")]

PartialPage == << makeRun(PER_PAGE, "Run"), makeRun(PER_PAGE + 1, "Run") >>

\* what the backend may answer to one request of the trace list
TraceResponses ==
    { Page(TRACES, "false"), Page(PageABC, "true"), Page(PageBCD, "false"),
      Page(PageBCD, "true"), Page(PageStale, "false"), Page(<<>>, "false"), AbsentPage }

\* what the backend may answer to one request of the workflow-run list
RunResponses ==
    { Page(TRACES, "missing"), Page(FullPage, "missing"), Page(PartialPage, "missing"),
      Page(PageStale, "missing"), Page(<<>>, "missing"), AbsentPage }

Responses(h) == IF h = "traces" THEN TraceResponses ELSE RunResponses

----------------------------------------------------------------------------
\* select

\* flatMap(page => page.spans) without the ?? [] default
RECURSIVE flatMapSpans_NoDefault(_)
flatMapSpans_NoDefault(ps) ==
    IF ps = <<>> THEN <<>>
    ELSE LET page == Head(ps)
         IN  (IF page.defined THEN page.items ELSE <<undefined>>)
                \o flatMapSpans_NoDefault(Tail(ps))

RECURSIVE flatMapSpans(_)
flatMapSpans(ps) ==
    IF ps = <<>> THEN <<>>
    ELSE LET page == Head(ps)
         IN  (IF page.defined THEN page.items ELSE <<>>) \o flatMapSpans(Tail(ps))

RECURSIVE flatMapRuns(_)
flatMapRuns(ps) ==
    IF ps = <<>> THEN <<>>
    ELSE LET page == Head(ps)
         IN  (IF page.defined THEN page.items ELSE <<undefined>>) \o flatMapRuns(Tail(ps))

\* the filter callback without seen.add
RECURSIVE filterSeen_NoAdd(_, _, _)
filterSeen_NoAdd(flat, seen, out) ==
    IF flat = <<>> THEN [threw |-> FALSE, value |-> out]
    ELSE LET x == Head(flat)
         IN  IF x = undefined THEN [threw |-> TRUE, value |-> <<>>]
             ELSE IF x.id \in seen THEN filterSeen_NoAdd(Tail(flat), seen, out)
             ELSE filterSeen_NoAdd(Tail(flat), seen, Append(out, x))

\* the filter callback with the seen set keyed by the name instead of the identifier
RECURSIVE filterSeen_ByName(_, _, _)
filterSeen_ByName(flat, seen, out) ==
    IF flat = <<>> THEN [threw |-> FALSE, value |-> out]
    ELSE LET x == Head(flat)
         IN  IF x = undefined THEN [threw |-> TRUE, value |-> <<>>]
             ELSE IF x.name \in seen THEN filterSeen_ByName(Tail(flat), seen, out)
             ELSE filterSeen_ByName(Tail(flat), seen \cup {x.name}, Append(out, x))

\* the filter callback keeping the last occurrence of an identifier, not the first
RECURSIVE filterSeen_KeepLast(_, _, _)
filterSeen_KeepLast(flat, seen, out) ==
    IF flat = <<>> THEN [threw |-> FALSE, value |-> out]
    ELSE LET x == Head(flat)
             later == {i \in 2..Len(flat) : flat[i].id = x.id}
         IN  IF x = undefined THEN [threw |-> TRUE, value |-> <<>>]
             ELSE IF later # {} THEN filterSeen_KeepLast(Tail(flat), seen, out)
             ELSE filterSeen_KeepLast(Tail(flat), seen, Append(out, x))

\* the filter callback with a later occurrence overwriting the record kept
RECURSIVE filterSeen_Overwrite(_, _, _)
filterSeen_Overwrite(flat, seen, out) ==
    IF flat = <<>> THEN [threw |-> FALSE, value |-> out]
    ELSE LET x == Head(flat)
         IN  IF x = undefined THEN [threw |-> TRUE, value |-> <<>>]
             ELSE IF x.id \in seen
                  THEN filterSeen_Overwrite(Tail(flat), seen,
                          [i \in 1..Len(out) |-> IF out[i].id = x.id THEN x ELSE out[i]])
             ELSE filterSeen_Overwrite(Tail(flat), seen \cup {x.id}, Append(out, x))

\* the filter callback with its seen set; reading a field of undefined throws
RECURSIVE filterSeen(_, _, _)
filterSeen(flat, seen, out) ==
    IF flat = <<>> THEN [threw |-> FALSE, value |-> out]
    ELSE LET x == Head(flat)
         IN  IF x = undefined THEN [threw |-> TRUE, value |-> <<>>]
             ELSE IF x.id \in seen THEN filterSeen(Tail(flat), seen, out)
             ELSE filterSeen(Tail(flat), seen \cup {x.id}, Append(out, x))

\* the seen set kept from one invocation of select to the next: after an
\* invocation it holds the identifiers of the list returned
newSeen_Hoisted == {data.value[i].id : i \in 1..Len(data.value)}

\* const seen = new Set<string>(): every invocation starts with an empty set
newSeen == {}

\* select as it was before the seen set: the flattened pages
selectTraces_FlatMapOnly(ps) == [threw |-> FALSE, value |-> flatMapSpans(ps)]

selectTraces(ps) == filterSeen(flatMapSpans(ps), newSeen, <<>>)

selectRuns_FlatMapOnly(ps) == [threw |-> FALSE, value |-> flatMapRuns(ps)]

selectRuns(ps) == filterSeen(flatMapRuns(ps), newSeen, <<>>)

select(h, ps) == IF h = "traces" THEN selectTraces(ps) ELSE selectRuns(ps)

----------------------------------------------------------------------------
\* getNextPageParam

NoNextPage == [threw |-> FALSE, defined |-> FALSE, value |-> 0]

NextPage(n) == [threw |-> FALSE, defined |-> TRUE, value |-> n]

TypeError == [threw |-> TRUE, defined |-> FALSE, value |-> 0]

\* getNextPageParam taking everything but hasMore: false for more data
getNextPageParamTraces_NotFalse(lastPage, lastPageParam) ==
    IF lastPage.more # "false" THEN NextPage(lastPageParam + 1) ELSE NoNextPage

getNextPageParamTraces(lastPage, lastPageParam) ==
    IF lastPage.more = "true" THEN NextPage(lastPageParam + 1) ELSE NoNextPage

\* getNextPageParam comparing with <= PER_PAGE
getNextPageParamRuns_OffByOne(lastPage, lastPageParam) ==
    IF ~lastPage.defined THEN TypeError
    ELSE IF Len(lastPage.items) <= PER_PAGE THEN NoNextPage
    ELSE NextPage(lastPageParam + 1)

getNextPageParamRuns(lastPage, lastPageParam) ==
    IF ~lastPage.defined THEN TypeError
    ELSE IF Len(lastPage.items) < PER_PAGE THEN NoNextPage
    ELSE NextPage(lastPageParam + 1)

getNextPageParam(h, lastPage, lastPageParam) ==
    IF h = "traces" THEN getNextPageParamTraces(lastPage, lastPageParam)
    ELSE getNextPageParamRuns(lastPage, lastPageParam)

\* the next page parameter of the query: none before the first page arrived
nextPageParam ==
    IF pages = <<>> THEN NoNextPage
    ELSE getNextPageParam(hook, pages[Len(pages)], pages[Len(pages)].param)

hasNextPage == nextPageParam.defined

\* fetches issued under an earlier query key are no fetches of this query
isFetchingNextPage ==
    \E i \in 1..Len(inflight) : inflight[i].kind = "next" /\ ~inflight[i].stale

isRefetching ==
    \E i \in 1..Len(inflight) :
        inflight[i].kind \in {"initial", "refresh"} /\ ~inflight[i].stale

----------------------------------------------------------------------------
\* The query session

NoData == [threw |-> FALSE, value |-> <<>>]

\* a fetch in flight; stale: issued under a query key that is no longer the hook's
Fetch(kind, param) == [kind |-> kind, param |-> param, stale |-> FALSE]

Superseded(fetches) ==
    [i \in 1..Len(fetches) |->
        [kind |-> fetches[i].kind, param |-> fetches[i].param, stale |-> TRUE]]

Remove(s, i) == SubSeq(s, 1, i - 1) \o SubSeq(s, i + 1, Len(s))

\* the number of records the pages hold
RECURSIVE Held(_)
Held(ps) == IF ps = <<>> THEN 0 ELSE Len(Head(ps).items) + Held(Tail(ps))

\* room for one more fetch within the bound of the model
Room == Len(pages) + Len(inflight) < MaxPages

Init ==
    /\ hook \in Hooks
    /\ pages = <<>>
    /\ data = NoData
    /\ inflight = <<Fetch("initial", initialPageParam)>>
    /\ isEndOfListInView = FALSE
    /\ selected = 0
    /\ isError = FALSE
    /\ clock = 0
    /\ deleted = {}

\* the page a refresh asks for, were it the page fetched last
RefreshParam_LastPage == IF pages = <<>> THEN initialPageParam ELSE pages[Len(pages)].param

\* the page a refresh asks for: the first page parameter
RefreshParam == initialPageParam

\* refetchInterval: the timer re-issues the fetch of the first page
RefetchInterval ==
    /\ ~isRefetching
    /\ Room
    /\ inflight' = Append(inflight, Fetch("refresh", RefreshParam))
    /\ UNCHANGED <<hook, pages, data, isEndOfListInView, selected, isError, clock, deleted>>

\* the effect without the in-flight check
ShouldFetchNextPage_NoInFlightCheck == isEndOfListInView /\ hasNextPage

\* the effect of the hook
ShouldFetchNextPage == isEndOfListInView /\ hasNextPage /\ ~isFetchingNextPage

EndOfListEffect ==
    /\ ShouldFetchNextPage
    /\ Room
    /\ inflight' = Append(inflight, Fetch("next", nextPageParam.value))
    /\ UNCHANGED <<hook, pages, data, isEndOfListInView, selected, isError, clock, deleted>>

\* useInView reports the end-of-list element entering or leaving the viewport
SetInView ==
    /\ isEndOfListInView' = ~isEndOfListInView
    /\ UNCHANGED <<hook, pages, data, inflight, selected, isError, clock, deleted>>

\* the result of a fetch issued under an earlier query key is written nowhere
Discarded_Never(fetch) == FALSE

Discarded(fetch) == fetch.stale

\* a fetch resolves: its page joins data.pages and select runs on the result
Resolve(i, r) ==
    /\ inflight' = Remove(inflight, i)
    /\ IF Discarded(inflight[i])
       THEN UNCHANGED <<pages, data, isError>>
       ELSE /\ Held(pages) + Len(r.items) <= MaxHeld
            /\ pages' = Append(pages, Entry(inflight[i].param, r))
            /\ data' = select(hook, pages')
            /\ isError' = FALSE
    /\ UNCHANGED <<hook, isEndOfListInView, selected, clock, deleted>>

\* the backend answers with one of its possible responses
FetchSuccess ==
    \E i \in 1..Len(inflight) : \E r \in Responses(hook) : Resolve(i, r)

\* what a failed fetch leaves of the pages: all of them
PagesAfterError_Cleared(ps) == <<>>

PagesAfterError(ps) == ps

\* a retry policy that issues the failed fetch again
retry_Always == TRUE

\* retry: false
retry == FALSE

\* a fetch rejects: retry is false, the pages stay, the error shows
FetchError ==
    \E i \in 1..Len(inflight) :
        /\ inflight' = IF retry /\ ~Discarded(inflight[i])
                       THEN Append(Remove(inflight, i), inflight[i])
                       ELSE Remove(inflight, i)
        /\ IF Discarded(inflight[i])
           THEN UNCHANGED <<pages, data, isError>>
           ELSE /\ pages' = PagesAfterError(pages)
                /\ data' = IF pages' = pages THEN data ELSE select(hook, pages')
                /\ isError' = TRUE
        /\ UNCHANGED <<hook, isEndOfListInView, selected, clock, deleted>>

\* the filters (the workflowId) change: a new query key, a new query; the
\* fetches of the old query go on and their results are dropped; a new timer
ChangeQueryKey ==
    /\ pages # <<>>
    /\ pages' = <<>>
    /\ data' = NoData
    /\ inflight' = Superseded(inflight) \o <<Fetch("initial", initialPageParam)>>
    /\ isError' = FALSE
    /\ clock' = 0
    /\ UNCHANGED <<hook, isEndOfListInView, selected, deleted>>

\* the view unmounts and mounts again: the query starts over, the end of the
\* list is not in view yet
Remount ==
    /\ pages # <<>>
    /\ pages' = <<>>
    /\ data' = NoData
    /\ inflight' = Superseded(inflight) \o <<Fetch("initial", initialPageParam)>>
    /\ isError' = FALSE
    /\ clock' = 0
    /\ isEndOfListInView' = FALSE
    /\ UNCHANGED <<hook, selected, deleted>>

\* the hook renders again: select is a new function and runs on the same pages
Rerender ==
    /\ pages # <<>>
    /\ data' = select(hook, pages)
    /\ UNCHANGED <<hook, pages, inflight, isEndOfListInView, selected, isError, clock, deleted>>

\* the list marks a row selected by comparing identifiers
isSelected(row) == selected = row.id

SelectedRows == {i \in 1..Len(data.value) : isSelected(data.value[i])}

\* the user clicks a rendered row
SelectRow ==
    \E i \in 1..Len(data.value) :
        /\ selected # data.value[i].id
        /\ selected' = data.value[i].id
        /\ UNCHANGED <<hook, pages, data, inflight, isEndOfListInView, isError, clock, deleted>>

ClearSelection ==
    /\ selected # 0
    /\ selected' = 0
    /\ UNCHANGED <<hook, pages, data, inflight, isEndOfListInView, isError, clock, deleted>>

Next ==
    \/ RefetchInterval
    \/ EndOfListEffect
    \/ SetInView
    \/ FetchSuccess
    \/ FetchError
    \/ ChangeQueryKey
    \/ Remount
    \/ Rerender
    \/ SelectRow
    \/ ClearSelection

Spec == Init /\ [][Next]_vars

----------------------------------------------------------------------------
\* The projector on its own: select applied to one bounded input at a time

Names == {"First", "Stale"}

Records == {makeSpan(i, n) : i \in 1..MaxId, n \in Names}

Flats == UNION {[1..n -> Records] : n \in 0..MaxRecords}

\* the page each record of a flat list goes to, pages in order
Assignments(n, k) == {a \in [1..n -> 1..k] : \A i \in 1..(n - 1) : a[i] <= a[i + 1]}

InputOf(flat, k, a, absent) ==
    [j \in 1..k |->
        LET lo == Cardinality({i \in 1..Len(flat) : a[i] < j})
            hi == Cardinality({i \in 1..Len(flat) : a[i] <= j})
        IN  IF j \in absent THEN Entry(j - 1, AbsentPage)
            ELSE Entry(j - 1, Page(SubSeq(flat, lo + 1, hi), "false"))]

InitSelect ==
    /\ hook \in Hooks
    /\ pages = <<>>
    /\ data = NoData
    /\ inflight = <<>>
    /\ isEndOfListInView = FALSE
    /\ selected = 0
    /\ isError = FALSE
    /\ clock = 0
    /\ deleted = {}

\* select runs on the pages it is given
Project ==
    /\ pages = <<>>
    /\ \E flat \in Flats : \E k \in 0..MaxSelPages :
       \E a \in Assignments(Len(flat), k) :
       \E absent \in SUBSET {j \in 1..k : \A i \in 1..Len(flat) : a[i] # j} :
            /\ pages' = InputOf(flat, k, a, absent)
            /\ data' = select(hook, pages')
    /\ UNCHANGED <<hook, inflight, isEndOfListInView, selected, isError, clock, deleted>>

NextSelect == Project

SpecSelect == InitSelect /\ [][NextSelect]_vars

----------------------------------------------------------------------------
\* The refetch timer with its interval: the session with time passing

refetchInterval_Swapped(h) ==
    IF h = "traces" THEN RUNS_REFETCH_INTERVAL ELSE TRACES_REFETCH_INTERVAL

refetchInterval(h) ==
    IF h = "traces" THEN TRACES_REFETCH_INTERVAL ELSE RUNS_REFETCH_INTERVAL

\* a second passes
Advance ==
    /\ clock + 1000 <= refetchInterval(hook)
    /\ clock' = clock + 1000
    /\ UNCHANGED <<hook, pages, data, inflight, isEndOfListInView, selected, isError, deleted>>

\* the interval has elapsed: the first page is fetched again, unless a fetch of
\* it is still in flight; the timer starts over
TimerFires ==
    /\ clock = refetchInterval(hook)
    /\ isRefetching \/ Room
    /\ clock' = 0
    /\ inflight' = IF isRefetching THEN inflight
                   ELSE Append(inflight, Fetch("refresh", RefreshParam))
    /\ UNCHANGED <<hook, pages, data, isEndOfListInView, selected, isError, deleted>>

NextTimer ==
    \/ Advance
    \/ TimerFires
    \/ EndOfListEffect
    \/ SetInView
    \/ FetchSuccess
    \/ FetchError
    \/ ChangeQueryKey

SpecTimer == Init /\ [][NextTimer]_vars

----------------------------------------------------------------------------
\* getNextPageParam on its own: one call on a bounded last page and parameter

\* lastPage itself undefined: lastPage?.pagination?.hasMore is undefined
UndefinedLastPage == [defined |-> FALSE, items |-> <<>>, more |-> "undefined"]

RunsOfLength(n) == [i \in 1..n |-> makeRun(i, "Run")]

LastPages(h) ==
    IF h = "traces"
    THEN {Page(items, more) : items \in {<<>>, TRACES}, more \in {"true", "false", "missing"}}
            \cup {UndefinedLastPage}
    ELSE {Page(RunsOfLength(n), "missing") : n \in 0..(PER_PAGE + 1)}

InitNextPage ==
    /\ hook \in Hooks
    /\ pages = <<>>
    /\ data = NoData
    /\ inflight = <<>>
    /\ isEndOfListInView = TRUE
    /\ selected = 0
    /\ isError = FALSE
    /\ clock = 0
    /\ deleted = {}

\* getNextPageParam(lastPage, _, lastPageParam) is called and fetchNextPage
\* fetches the page it names, if it names one
CallGetNextPageParam ==
    /\ pages = <<>>
    /\ \E lastPage \in LastPages(hook) : \E lastPageParam \in 0..MaxParam :
          LET next == getNextPageParam(hook, lastPage, lastPageParam)
          IN  /\ pages' = <<Entry(lastPageParam, lastPage)>>
              /\ inflight' = IF next.defined THEN <<Fetch("next", next.value)>> ELSE <<>>
    /\ UNCHANGED <<hook, data, isEndOfListInView, selected, isError, clock, deleted>>

NextNextPage == CallGetNextPageParam

SpecNextPage == InitNextPage /\ [][NextNextPage]_vars

----------------------------------------------------------------------------
\* Deleting a workflow run: useDeleteWorkflowRun beside useWorkflowRuns, over
\* a backend that answers with the runs it still holds

\* the runs the backend holds
BackendRuns == SelectSeq(RunsOfLength(MaxRuns), LAMBDA run : run.id \notin deleted)

\* runs({ limit: PER_PAGE, offset: pageParam * PER_PAGE })
BackendPage(pageParam) ==
    Page(SubSeq(BackendRuns, pageParam * PER_PAGE + 1,
                IF Len(BackendRuns) < (pageParam + 1) * PER_PAGE
                THEN Len(BackendRuns) ELSE (pageParam + 1) * PER_PAGE),
         "missing")

InitDelete ==
    /\ Init
    /\ hook = "runs"

\* a fetch resolves with the page the backend holds for its parameter
BackendFetchSuccess ==
    \E i \in 1..Len(inflight) : Resolve(i, BackendPage(inflight[i].param))

\* deleteRunById succeeds; onSuccess invalidates ['workflow-runs', workflowId]:
\* the fetches in flight are cancelled and the list is fetched again
DeleteRunSuccess ==
    \E runId \in {data.value[i].id : i \in 1..Len(data.value)} :
        /\ Room
        /\ deleted' = deleted \cup {runId}
        /\ inflight' = Append(Superseded(inflight), Fetch("refresh", RefreshParam))
        /\ UNCHANGED <<hook, pages, data, isEndOfListInView, selected, isError, clock>>

\* deleteRunById fails; onError shows a toast and touches no query
DeleteRunError ==
    \E runId \in {data.value[i].id : i \in 1..Len(data.value)} :
        UNCHANGED vars

NextDelete ==
    \/ BackendFetchSuccess
    \/ FetchError
    \/ RefetchInterval
    \/ SetInView
    \/ DeleteRunSuccess
    \/ DeleteRunError

SpecDelete == InitDelete /\ [][NextDelete]_vars

----------------------------------------------------------------------------
\* Vocabulary of the properties

\* the records of the pages one after the other, pages in order
RECURSIVE Concat(_)
Concat(ps) == IF ps = <<>> THEN <<>> ELSE Head(ps).items \o Concat(Tail(ps))

\* the positions of a list holding the first occurrence of their identifier
FirstPositions(flat) ==
    {i \in 1..Len(flat) : \A j \in 1..(i - 1) : flat[j].id # flat[i].id}

\* the list with every non-first occurrence of an identifier removed
FirstOccurrences(flat) ==
    LET keep == FirstPositions(flat)
    IN  [k \in 1..Cardinality(keep) |->
            flat[CHOOSE i \in keep : Cardinality({j \in keep : j <= i}) = k]]

IdsOf(list) == {list[i].id : i \in 1..Len(list)}

AllDefined(ps) == \A i \in 1..Len(ps) : ps[i].defined

\* the pages that hold at least one record
RECURSIVE NonDegenerate(_)
NonDegenerate(ps) ==
    IF ps = <<>> THEN <<>>
    ELSE IF Head(ps).defined /\ Head(ps).items # <<>>
         THEN <<Head(ps)>> \o NonDegenerate(Tail(ps))
         ELSE NonDegenerate(Tail(ps))

\* every page retained is a page-0 fetch answered with the same records, no more data
StableBackend(records) ==
    /\ pages # <<>>
    /\ \A i \in 1..Len(pages) :
          /\ pages[i].param = 0
          /\ pages[i].defined
          /\ pages[i].items = records
          /\ pages[i].more # "true"

\* the rows of the projected list whose identifier equals id
Lookup(id) == {i \in 1..Len(data.value) : data.value[i].id = id}

\* the next-page fetches of the current query that are in flight
NextInFlight ==
    Cardinality({i \in 1..Len(inflight) : inflight[i].kind = "next" /\ ~inflight[i].stale})

----------------------------------------------------------------------------
\* C1: in every reachable state of a query session of either hook, no two
\* records of the projected list returned by select share an identifier.
C1_NoDuplicateIdentifier ==
    \A i, j \in 1..Len(data.value) :
        i # j => data.value[i].id # data.value[j].id

\* initial load, a forward page and a refresh have arrived, and they overlap
C1_Witness ==
    /\ Len(pages) = 3
    /\ pages[1].param = 0 /\ pages[2].param = 1 /\ pages[3].param = 0
    /\ ~data.threw
    /\ Len(data.value) > 0
    /\ Len(data.value) < Len(Concat(pages))

\* C2: with a backend answering every page-0 fetch with the same 5 records and
\* no more data, after any number of refreshes the projected list is those 5
\* records: length 5, each identifier exactly once.
C2_IdempotentRefresh ==
    StableBackend(TRACES) =>
        /\ ~data.threw
        /\ Len(data.value) = Len(TRACES)
        /\ \A r \in 1..Len(TRACES) : Cardinality(Lookup(TRACES[r].id)) = 1

C2_Witness ==
    /\ StableBackend(TRACES)
    /\ Len(pages) >= 3
    /\ Len(data.value) = 5

\* C3: the accumulated page set holds at most one page per page index; a
\* refresh of page 0 answered [a,b,c] after page 0 was answered [a,b,c] leaves
\* one page-0 entry and a projected list of length 3.
C3_RefreshSupersedes ==
    /\ \A i, j \in 1..Len(pages) : i # j => pages[i].param # pages[j].param
    /\ StableBackend(PageABC) => Len(pages) = 1 /\ Len(data.value) = 3

\* C4: with one of the backend's records selected and the backend answering
\* every fetch with the same records, after any number of refreshes exactly one
\* row of the rendered list is marked selected, and it is the record of the
\* selected identifier.
C4_SelectionStability ==
    (selected \in IdsOf(TRACES) /\ StableBackend(TRACES)) =>
        /\ Cardinality(SelectedRows) = 1
        /\ \A i \in SelectedRows : data.value[i] = TRACES[selected]

C4_Witness ==
    /\ selected = 3
    /\ StableBackend(TRACES)
    /\ Len(pages) >= 3
    /\ \E i \in SelectedRows : data.value[i].name = "Charlie"

\* C5: looking an identifier up in the projected list matches at most one
\* record, and none when the identifier is not in the list.
C5_LookupAtMostOne ==
    \A id \in IdsOf(Concat(pages)) \cup {selected} :
        /\ Cardinality(Lookup(id)) <= 1
        /\ id \notin IdsOf(data.value) => Lookup(id) = {}

\* the selected record is gone from a list that shows other records
C5_Witness ==
    /\ selected # 0
    /\ data.value # <<>>
    /\ Lookup(selected) = {}
    /\ \E id \in IdsOf(data.value) : Cardinality(Lookup(id)) = 1

\* C6: select returns the flattened record sequence with every non-first
\* occurrence of an identifier removed; pages with disjoint identifiers give
\* the concatenation; [a,b,c] then [b,c,d] gives [a,b,c,d].
C6_FlattenFirstOccurrences ==
    /\ AllDefined(pages) =>
          /\ ~data.threw
          /\ data.value = FirstOccurrences(Concat(pages))
          /\ Cardinality(IdsOf(Concat(pages))) = Len(Concat(pages))
                => data.value = Concat(pages)
    /\ \A h \in Hooks :
          select(h, <<Entry(0, Page(PageABC, "false")), Entry(1, Page(PageBCD, "false"))>>)
            = [threw |-> FALSE,
               value |-> << makeSpan(1, "Alpha"), makeSpan(2, "Bravo"),
                            makeSpan(3, "Charlie"), makeSpan(4, "Delta") >>]

\* two pages that share an identifier have been projected
C6_Witness ==
    /\ Len(pages) >= 2
    /\ AllDefined(pages)
    /\ IdsOf(pages[1].items) \cap IdsOf(pages[2].items) # {}
    /\ Len(data.value) >= 2
    /\ Len(data.value) < Len(Concat(pages))

\* C7: an identifier that occurs again later with another payload is in the
\* projected list once, with the payload of its first occurrence.
C7_FirstSeenWins ==
    /\ AllDefined(pages) =>
          LET flat == Concat(pages)
          IN  \A p \in 1..Len(flat) :
                 /\ Cardinality(Lookup(flat[p].id)) = 1
                 /\ \A i \in Lookup(flat[p].id) :
                       data.value[i] = flat[CHOOSE q \in FirstPositions(flat) :
                                                flat[q].id = flat[p].id]
    /\ \A h \in Hooks :
          select(h, <<Entry(0, Page(<<makeSpan(1, "First")>>, "false")),
                      Entry(1, Page(<<makeSpan(1, "Stale")>>, "false"))>>).value
            = <<makeSpan(1, "First")>>

\* page 0 holds an identifier as "First", a later page holds it as "Stale"
C7_Witness ==
    /\ Len(pages) >= 2
    /\ AllDefined(pages)
    /\ \E a \in 1..Len(pages[1].items) : \E b \in 1..Len(pages[2].items) :
          /\ pages[1].items[a].id = pages[2].items[b].id
          /\ pages[1].items[a].name = "First"
          /\ pages[2].items[b].name = "Stale"
          /\ \E i \in 1..Len(data.value) : data.value[i] = pages[1].items[a]

\* C8: for the trace list, select of no pages is the empty list, and a page
\* whose spans are empty or absent contributes nothing and does not make
\* select throw: the other pages are projected in order.
C8_TraceDegenerateInputs ==
    /\ selectTraces(<<>>) = [threw |-> FALSE, value |-> <<>>]
    /\ hook = "traces" =>
          /\ ~data.threw
          /\ data.value = FirstOccurrences(Concat(NonDegenerate(pages)))

\* a page without spans and an empty page stand before a page with records
C8_Witness ==
    /\ hook = "traces"
    /\ Len(pages) = 3
    /\ ~pages[1].defined
    /\ pages[2].defined /\ pages[2].items = <<>>
    /\ pages[3].items # <<>>
    /\ data.value = pages[3].items

\* C9: for the workflow-run list, a page whose runs are absent contributes
\* nothing and is no error, neither in select nor in getNextPageParam; select
\* of no pages is the empty list.
C9_RunDegenerateInputs ==
    /\ selectRuns(<<>>) = [threw |-> FALSE, value |-> <<>>]
    /\ hook = "runs" =>
          /\ ~data.threw
          /\ data.value = FirstOccurrences(Concat(NonDegenerate(pages)))
          /\ pages # <<>> =>
                ~getNextPageParamRuns(pages[Len(pages)], pages[Len(pages)].param).threw

\* C10: a next-page fetch is issued only with the end of the list in view, a
\* next page to fetch and no next-page fetch in flight; never are two
\* next-page fetches outstanding.
C10_ForwardPaginationGuard ==
    /\ [](NextInFlight <= 1)
    /\ [][NextInFlight' > NextInFlight =>
            /\ isEndOfListInView
            /\ pages # <<>>
            /\ getNextPageParam(hook, pages[Len(pages)], pages[Len(pages)].param).defined
            /\ NextInFlight = 0]_vars

\* a next-page fetch and a refresh are in flight together
C10_Witness ==
    /\ NextInFlight = 1
    /\ isEndOfListInView
    /\ \E i \in 1..Len(inflight) : inflight[i].kind = "refresh"
    /\ \E i \in 1..Len(inflight) : inflight[i].kind = "next" /\ inflight[i].param = 1

----------------------------------------------------------------------------
\* Vocabulary of the later properties

\* the fetches of the first page, issued by the timer for the current query
RefreshInFlight ==
    {i \in 1..Len(inflight) : inflight[i].kind = "refresh" /\ ~inflight[i].stale}

ParamsOf(ps) == {ps[i].param : i \in 1..Len(ps)}

\* k copies of one page
Copies(page, k) == [i \in 1..k |-> Entry(i - 1, page)]

\* the pages in ascending page-index order, pages of one index in arrival order
RECURSIVE ByPageIndex(_, _)
ByPageIndex(ps, p) ==
    IF \A i \in 1..Len(ps) : ps[i].param < p THEN <<>>
    ELSE SelectSeq(ps, LAMBDA e : e.param = p) \o ByPageIndex(ps, p + 1)

\* this step settles fetch i of the current query
Settles(i) == ~inflight[i].stale /\ inflight' = Remove(inflight, i)

\* C11: when a fetch of the current query fails, every retained page and the
\* projected list stay as they were and the error state shows.
C11_FailureKeepsPages ==
    [][(\E i \in 1..Len(inflight) : Settles(i) /\ Len(pages') <= Len(pages)) =>
            /\ pages' = pages
            /\ data' = data
            /\ isError']_vars

\* a refresh failed after pages had arrived
C11_Witness ==
    /\ isError
    /\ Len(pages) >= 1
    /\ data.value # <<>>
    /\ inflight = <<>>

\* C12: for the trace list getNextPageParam gives lastPageParam + 1 exactly when
\* the last page's pagination.hasMore is true, and no next page when hasMore is
\* false, pagination is missing or the last page is undefined.
C12_TraceNextPageRule ==
    (hook = "traces" /\ pages # <<>>) =>
        /\ pages[1].more = "true" => inflight = <<Fetch("next", pages[1].param + 1)>>
        /\ pages[1].more \in {"false", "missing", "undefined"} => inflight = <<>>

C12_Witness ==
    /\ hook = "traces"
    /\ pages # <<>>
    /\ pages[1].more = "true"
    /\ pages[1].param = 5
    /\ inflight = <<Fetch("next", 6)>>

\* C13: for the workflow-run list getNextPageParam gives lastPageParam + 1
\* exactly when the last page holds at least PER_PAGE runs, and no next page
\* when it holds fewer, the empty page included.
C13_RunNextPageRule ==
    (hook = "runs" /\ pages # <<>> /\ pages[1].defined) =>
        /\ Len(pages[1].items) >= 20 => inflight = <<Fetch("next", pages[1].param + 1)>>
        /\ Len(pages[1].items) < 20 => inflight = <<>>

C13_Witness ==
    /\ hook = "runs"
    /\ pages # <<>>
    /\ Len(pages[1].items) = 20
    /\ pages[1].param = 3
    /\ inflight = <<Fetch("next", 4)>>

\* C14: for both projectors, select over k >= 1 copies of a page returns what
\* select over the single page returns.
C14_RepeatedPagesAbsorbed ==
    /\ Len(pages) = 1 => \A k \in 1..MaxCopies :
          select(hook, Copies(pages[1], k)) = data
    /\ (pages # <<>> /\ \A i \in 1..Len(pages) :
                          pages[i].defined = pages[1].defined /\ pages[i].items = pages[1].items)
          => data = select(hook, <<pages[1]>>)

\* three copies of a page with a record have been projected
C14_Witness ==
    /\ Len(pages) = 3
    /\ pages[1].items # <<>>
    /\ pages[2].items = pages[1].items
    /\ pages[3].items = pages[1].items
    /\ Len(data.value) = 1

C16_PageIndexOrder ==
    ~data.threw => data.value = FirstOccurrences(Concat(ByPageIndex(pages, 0)))

C18_Cancellation ==
    /\ [][Len(pages') = Len(pages) + 1 =>
            \E i \in 1..Len(inflight) :
                /\ Settles(i)
                /\ pages'[Len(pages')].param = inflight[i].param]_vars
    /\ [][(pages # <<>> /\ pages' = <<>>) =>
            /\ clock' = 0
            /\ \A i \in 1..Len(inflight) : inflight'[i].stale]_vars
    /\ [][Len(inflight') > Len(inflight) => ~inflight'[Len(inflight')].stale]_vars

\* the new context has its page while a fetch of the old one is in flight
C18_Witness ==
    /\ pages # <<>>
    /\ \E i \in 1..Len(inflight) : inflight[i].stale /\ inflight[i].kind = "refresh"

\* C19: with a refresh and a next-page fetch in flight together, whichever
\* completes, the page retained for its index is the result completed last.
C19_CompletionOrder ==
    [][(Len(pages') = Len(pages) + 1
            /\ RefreshInFlight # {} /\ NextInFlight = 1) =>
            Cardinality({i \in 1..Len(pages') :
                            pages'[i].param = pages'[Len(pages')].param}) = 1]_vars

\* C20: within a query session a retained page index stays retained after
\* every forward fetch, refresh or failed fetch; only a remount or a change of
\* the query key empties the pages.
C20_MonotonicGrowth ==
    [][\/ /\ ParamsOf(pages) \subseteq ParamsOf(pages')
          /\ Len(pages') >= Len(pages)
       \/ ChangeQueryKey
       \/ Remount]_vars

\* a fetch failed with the first and the second page retained
C20_Witness ==
    /\ isError
    /\ Len(pages) = 2
    /\ ParamsOf(pages) = {0, 1}

\* C21: a failed fetch is not issued again by a retry: when the error shows,
\* the failed fetch has left the fetches in flight, and a fetch is only ever
\* issued by the timer (page 0), by the end-of-list effect (the next page
\* parameter) or as the first fetch of a new query.
C21_NoAutomaticRetry ==
    /\ [][(~isError /\ isError') => Len(inflight') = Len(inflight) - 1]_vars
    /\ [][Len(inflight') > Len(inflight) =>
            LET issued == inflight'[Len(inflight')]
            IN  \/ issued.kind = "refresh" /\ issued.param = 0 /\ ~isRefetching
                \/ /\ issued.kind = "next"
                   /\ ShouldFetchNextPage
                   /\ issued.param = nextPageParam.value
                \/ issued.kind = "initial" /\ pages' = <<>>]_vars

\* the first fetch failed and the timer has issued the fetch of page 0 again
C21_Witness ==
    /\ isError
    /\ pages = <<>>
    /\ inflight = <<Fetch("refresh", 0)>>

\* C22: over pages whose record sequences are present, the identifiers of the
\* projected list are the identifiers occurring in the pages, and the list is
\* as long as there are distinct identifiers.
C22_NoRecordLost ==
    (pages # <<>> /\ AllDefined(pages)) =>
        /\ ~data.threw
        /\ IdsOf(data.value) = IdsOf(Concat(pages))
        /\ Len(data.value) = Cardinality(IdsOf(Concat(pages)))

\* two pages that share a record have been projected
C22_Witness ==
    /\ Len(pages) = 2
    /\ AllDefined(pages)
    /\ IdsOf(pages[1].items) \cap IdsOf(pages[2].items) # {}
    /\ Len(Concat(pages)) = 3
    /\ Len(data.value) = 2

\* C23: forward pagination asks for consecutive page indices from 0 on: the
\* next page parameter is an index not retained yet, and every index below it
\* is retained.
C23_ConsecutiveIndices ==
    hasNextPage =>
        /\ nextPageParam.value \notin ParamsOf(pages)
        /\ \A p \in 0..(nextPageParam.value - 1) : p \in ParamsOf(pages)

\* C24: when deleteRunById has succeeded and the fetch the invalidation caused
\* has completed, no deleted run is in the projected list.
C24_DeletedRunAbsent ==
    (/\ deleted # {}
     /\ ~isError
     /\ \A i \in 1..Len(inflight) : inflight[i].stale) =>
        IdsOf(data.value) \cap deleted = {}

====
